---- MODULE Spec2Model ----
(***************************************************************************)
(* Attendance tracker (src/app.py, src/database.py): two SQLite tables,    *)
(* four data-access functions and the Flask handlers that drive them       *)
(* through a browser session holding the current session date.             *)
(*                                                                         *)
(* Spec      the whole system, one call or request at a time: every        *)
(*           data-access function and every handler is one action.         *)
(* ConcSpec  the two writing data-access functions run by several workers  *)
(*           at once, one statement of one worker at a time, so that the   *)
(*           SELECT and the INSERT/UPDATE of record_attendance are         *)
(*           separate steps other workers interleave with.                 *)
(***************************************************************************)
EXTENDS Integers, Sequences, FiniteSets, TLC

\* ---- bounds of the model ----
MaxParticipants == 2
MaxRecords == 2
MaxFields == 2

VARIABLES
    participants,        \* rows of table participants: [id, name, email]
    attendance_records,  \* rows of table attendance_records:
                         \*   [id, participant_id, session_date, status]
    session,             \* session['session_date'] of the browser, or NoneStr
    schema,              \* names of the tables that exist in attendance.db
    pc,                  \* per worker: the statement it is about to run
    frame,               \* per worker: the locals of the call in progress
    ret                  \* the last call or request, with what it returned

vars == <<participants, attendance_records, session, schema, pc, frame, ret>>

Procs == {1, 2}

\* ---- values ----
\* Python None in a string-typed slot (email, form field, session entry).
NoneStr == "None"
\* An optional integer result: None is <<>>, the integer n is <<n>>.
None == <<>>
Some(v) == <<v>>

\* `if x:` on what request.form.get / request.args.get / session.get gave
Truthy(v) == v # NoneStr /\ v # ""

\* Names are written as tuples of character codes, so that the store's
\* ORDER BY can compare them: "A", "AB" and "a".
Names == {<<65>>, <<65, 66>>, <<97>>}
\* what a form can carry as participant_name: a name, or nothing
NameInputs == {<<65>>, <<97>>, <<>>}
\* the (name, email) arguments of direct add_participant calls
AddInputs ==
    {[name |-> <<65>>, email |-> NoneStr],
     [name |-> <<65, 66>>, email |-> "ab@example.com"],
     [name |-> <<97>>, email |-> NoneStr]}
Dates == {"2024-01-03", "2024-01-04"}
\* what a form or a query string can carry where a date is expected
DateInputs == Dates \cup {NoneStr, ""}
StatusInputs == {"Present", "Absent", "Late"}
\* participant ids a caller can pass (rows 1..n exist, n <= MaxParticipants)
IdInputs == 1..MaxParticipants

\* BINARY collation: bytewise comparison, a proper prefix sorts first.
LexLess(a, b) ==
    \/ /\ Len(a) < Len(b)
       /\ \A i \in 1..Len(a) : a[i] = b[i]
    \/ \E i \in 1..Len(a) :
          /\ i <= Len(b)
          /\ a[i] < b[i]
          /\ \A j \in 1..(i - 1) : a[j] = b[j]

LexLeq(a, b) == a = b \/ LexLess(a, b)

Max(S) == CHOOSE x \in S : \A y \in S : y <= x

\* INTEGER PRIMARY KEY AUTOINCREMENT: one more than the largest id so far
\* (rows are never deleted, so this is also sqlite_sequence + 1).
NextId(table) == IF table = {} THEN 1 ELSE Max({r.id : r \in table}) + 1

\* the column without its UNIQUE constraint
NameNotUnique(table, name) == FALSE

\* name TEXT NOT NULL UNIQUE
UniqueNameViolated(table, name) == \E r \in table : r.name = name

\* the column without its CHECK constraint
StatusUnchecked(status) == TRUE

\* status TEXT NOT NULL CHECK(status IN ('Present', 'Absent'))
StatusCheck(status) == status \in {"Present", "Absent"}

\* rows in no particular order: the query without ORDER BY
Unordered(rows) ==
    {s \in [1..Cardinality(rows) -> rows] :
        \A i, j \in 1..Cardinality(rows) : i # j => s[i] # s[j]}

\* All orders in which the store may return `rows` under ORDER BY name:
\* every arrangement of the rows that is ascending in their name (rows with
\* equal names come in any order).
Ordered(rows) ==
    {s \in [1..Cardinality(rows) -> rows] :
        /\ \A i, j \in 1..Cardinality(rows) : i # j => s[i] # s[j]
        /\ \A i, j \in 1..Cardinality(rows) : i < j => LexLeq(s[i].name, s[j].name)}

\* ---- the data-access functions, as functions of the tables ----

\* INSERT INTO participants (name, email) VALUES (?, ?); commit; return
\* cursor.lastrowid.  A UNIQUE violation raises IntegrityError: return None.
add_participant(table, name, email) ==
    IF UniqueNameViolated(table, name)
    THEN [table |-> table, value |-> None]
    ELSE [table |-> table \cup {[id |-> NextId(table), name |-> name,
                                 email |-> email]},
          value |-> Some(NextId(table))]

\* SELECT id, name, email FROM participants ORDER BY name
get_all_participants(table) == Ordered(table)

\* SELECT id FROM attendance_records WHERE participant_id = ? AND session_date = ?
Matching(table, participant_id, session_date) ==
    {r \in table :
        r.participant_id = participant_id /\ r.session_date = session_date}

\* record = cursor.fetchone(): the id of a matching row (whichever the store
\* yields first), or nothing (0)
Fetchone(table, participant_id, session_date) ==
    IF Matching(table, participant_id, session_date) = {} THEN {0}
    ELSE {r.id : r \in Matching(table, participant_id, session_date)}

\* the UPDATE without its WHERE clause
UpdateEveryRow(table, id, status) ==
    {[r EXCEPT !.status = status] : r \in table}

\* the update done as DELETE and INSERT: the row comes back under a new id
UpdateByReplace(table, id, status) ==
    {r \in table : r.id # id}
        \cup {[r EXCEPT !.id = NextId(table), !.status = status] :
                 r \in {x \in table : x.id = id}}

\* UPDATE attendance_records SET status = ? WHERE id = ?
UpdateStatus(table, id, status) ==
    {IF r.id = id THEN [r EXCEPT !.status = status] ELSE r : r \in table}

\* the INSERT against a table with UNIQUE (participant_id, session_date),
\* as INSERT OR IGNORE
InsertUnlessPresent(table, participant_id, session_date, status) ==
    IF \E r \in table : /\ r.participant_id = participant_id
                        /\ r.session_date = session_date
    THEN table
    ELSE table \cup {[id |-> NextId(table), participant_id |-> participant_id,
                      session_date |-> session_date, status |-> status]}

\* INSERT INTO attendance_records (participant_id, session_date, status)
\* (the FOREIGN KEY clause is not enforced: the connection never sets
\* PRAGMA foreign_keys)
InsertRecord(table, participant_id, session_date, status) ==
    table \cup {[id |-> NextId(table), participant_id |-> participant_id,
                 session_date |-> session_date, status |-> status]}

\* `if record:` UPDATE, else INSERT; commit; return True.  A status the CHECK
\* constraint rejects raises in either statement: return False.
RecordWriteResult(table, record, participant_id, session_date, status) ==
    IF ~StatusCheck(status) THEN [table |-> table, value |-> FALSE]
    ELSE IF record # 0
    THEN [table |-> UpdateStatus(table, record, status), value |-> TRUE]
    ELSE [table |-> InsertRecord(table, participant_id, session_date, status),
          value |-> TRUE]

\* record_attendance run without interruption: every [table, value, record]
\* it can end with
record_attendance(table, participant_id, session_date, status) ==
    {[table |-> RecordWriteResult(table, record, participant_id,
                                  session_date, status).table,
      value |-> RecordWriteResult(table, record, participant_id,
                                  session_date, status).value,
      record |-> record] :
        record \in Fetchone(table, participant_id, session_date)}

\* SELECT p.name AS participant_name, ar.status, ar.session_date
\* FROM attendance_records ar JOIN participants p ON ar.participant_id = p.id
\* WHERE ar.session_date = ? ORDER BY p.name
get_attendance_for_session(ptable, atable, session_date) ==
    LET joined == {[name |-> j.p.name, ar |-> j.ar] :
                   j \in {x \in [ar : atable, p : ptable] :
                             /\ x.ar.participant_id = x.p.id
                             /\ x.ar.session_date = session_date}}
    IN  {[i \in 1..Cardinality(joined) |->
             [participant_name |-> s[i].name,
              status |-> s[i].ar.status,
              session_date |-> s[i].ar.session_date]] :
         s \in Ordered(joined)}

\* ---- the submitted attendance form ----
\* A field name is written as the tuple of its '_'-separated pieces, which is
\* what key.split('_') yields: "status_1" is <<"status", "1">>.
DecimalText == <<"1", "2", "3", "4", "5", "6">>
FieldKeys ==
    {<<"status", DecimalText[n]>> : n \in IdInputs}
        \cup {<<"status", "x">>, <<"status", "1", "x">>}
\* a status field carries Present or Absent; one carries a status outside
\* the domain
FormItems ==
    [key : FieldKeys, value : {"Present", "Absent"}]
        \cup {[key |-> <<"status", "1">>, value |-> "Late"]}
\* the status fields of request.form: at most MaxFields, no name twice
Forms ==
    UNION {{s \in [1..n -> FormItems] :
               \A i, j \in 1..n : i # j => s[i].key # s[j].key} : n \in 0..MaxFields}

\* key.startswith('status_')
IsStatusKey(key) == Len(key) >= 2 /\ key[1] = "status"
\* int(text): the integer a decimal literal denotes; ValueError otherwise
IntParses(text) == \E n \in 1..Len(DecimalText) : DecimalText[n] = text
IntOf(text) == CHOOSE n \in 1..Len(DecimalText) : DecimalText[n] = text

\* request.form.items(): the hidden session_date field and the status fields
FormFields(session_date_form, form) ==
    <<[key |-> <<"session", "date">>, value |-> session_date_form]>> \o form

\* the loop left after the first field it records
RECURSIVE RecordFirst(_, _, _)
RecordFirst(tables, items, session_date) ==
    IF items = <<>> THEN tables
    ELSE LET key == Head(items).key
             status == Head(items).value
         IN  IF IsStatusKey(key) /\ IntParses(key[2])
             THEN UNION {{o.table : o \in record_attendance(
                             t, IntOf(key[2]), session_date, status)} :
                         t \in tables}
             ELSE RecordFirst(tables, Tail(items), session_date)

\* for key, value in request.form.items(): a field that is no status field,
\* or whose id is no integer, is passed over; any other calls
\* record_attendance(int(id), session_date, value), whose result is dropped.
\* From each table of `tables`, every table the loop can end with.
RECURSIVE RecordAll(_, _, _)
RecordAll(tables, items, session_date) ==
    IF items = <<>> THEN tables
    ELSE LET key == Head(items).key
             status == Head(items).value
         IN  IF IsStatusKey(key) /\ IntParses(key[2])
             THEN RecordAll(
                     UNION {{o.table : o \in record_attendance(
                                t, IntOf(key[2]), session_date, status)} :
                            t \in tables},
                     Tail(items), session_date)
             ELSE RecordAll(tables, Tail(items), session_date)

\* ---- responses ----
Redirect(location) == [kind |-> "redirect", location |-> location]
RedirectView(date) ==
    [kind |-> "redirect", location |-> "/view", session_date_view |-> date]
Render(template, rows, date) ==
    [kind |-> "render", template |-> template, rows |-> rows,
     session_date |-> date]

\* ---- the schema ----
TableNames == {"participants", "attendance_records"}

\* the schema set up by DROP TABLE and CREATE TABLE: the rows are gone
init_db_anew(db) ==
    [tables |-> TableNames, participants |-> {}, attendance_records |-> {}]

\* init_db(): CREATE TABLE IF NOT EXISTS participants / attendance_records,
\* commit.  db is the file: which tables exist, and their rows.
init_db(db) ==
    [tables |-> db.tables \cup TableNames,
     participants |->
        IF "participants" \in db.tables THEN db.participants ELSE {},
     attendance_records |->
        IF "attendance_records" \in db.tables THEN db.attendance_records
        ELSE {}]

\* the file as it is
Db ==
    [tables |-> schema, participants |-> participants,
     attendance_records |-> attendance_records]

\* ---- initial state: init_db() has created both tables, empty ----
IdleFrame ==
    [name |-> <<>>, email |-> NoneStr, participant_id |-> 0,
     session_date |-> NoneStr, status |-> NoneStr, record |-> 0]

Init ==
    /\ participants = {}
    /\ attendance_records = {}
    /\ session = NoneStr
    /\ schema = TableNames
    /\ pc = [p \in Procs |-> "idle"]
    /\ frame = [p \in Procs |-> IdleFrame]
    /\ ret = [op |-> "none"]

\* ======================= one call or request at a time =================

\* add_participant(name, email)
AddParticipant(name, email) ==
    LET o == add_participant(participants, name, email) IN
    /\ Cardinality(o.table) <= MaxParticipants
    /\ participants' = o.table
    /\ ret' = [op |-> "add_participant", name |-> name, email |-> email,
               value |-> o.value]
    /\ UNCHANGED <<attendance_records, session, schema, pc, frame>>

\* get_all_participants()
GetAllParticipants ==
    /\ \E rows \in get_all_participants(participants) :
          ret' = [op |-> "get_all_participants", value |-> rows]
    /\ UNCHANGED <<participants, attendance_records, session, schema, pc, frame>>

\* record_attendance(participant_id, session_date, status)
RecordAttendance(participant_id, session_date, status) ==
    /\ \E o \in record_attendance(attendance_records, participant_id,
                                  session_date, status) :
          /\ Cardinality(o.table) <= MaxRecords
          /\ attendance_records' = o.table
          /\ ret' = [op |-> "record_attendance",
                     participant_id |-> participant_id,
                     session_date |-> session_date, status |-> status,
                     record |-> o.record, value |-> o.value]
    /\ UNCHANGED <<participants, session, schema, pc, frame>>

\* get_attendance_for_session(session_date)
GetAttendanceForSession(session_date) ==
    /\ \E rows \in get_attendance_for_session(participants, attendance_records,
                                              session_date) :
          ret' = [op |-> "get_attendance_for_session",
                  session_date |-> session_date, value |-> rows]
    /\ UNCHANGED <<participants, attendance_records, session, schema, pc, frame>>

\* POST /init_db_route: init_db(), then the JSON acknowledgement
InitializeDatabaseRoute ==
    /\ schema' = init_db(Db).tables
    /\ participants' = init_db(Db).participants
    /\ attendance_records' = init_db(Db).attendance_records
    /\ ret' = [op |-> "initialize_database_route",
               response |-> [kind |-> "json", status |-> 200]]
    /\ UNCHANGED <<session, pc, frame>>

\* GET /
SetupGet ==
    /\ \E rows \in get_all_participants(participants) :
          ret' = [op |-> "setup_page", method |-> "GET",
                  response |-> Render("setup.html", rows, session)]
    /\ UNCHANGED <<participants, attendance_records, session, schema, pc, frame>>

\* POST / with form fields action, session_date, participant_name
SetupActions == {"add_participant", "proceed_to_attendance", NoneStr}

\* the assignment made without the test: a request without a date
\* overwrites the stored one
StoredDateUntested(stored, session_date_form) == session_date_form

\* the stored date dropped by a request that brings none
StoredDateOrCleared(stored, session_date_form) ==
    IF Truthy(session_date_form) THEN session_date_form ELSE NoneStr

\* if session_date_form: session['session_date'] = session_date_form
StoredDate(stored, session_date_form) ==
    IF Truthy(session_date_form) THEN session_date_form ELSE stored

\* the proceed action sent on although no date is stored
ProceedUnguarded(stored) == Redirect("/attendance")

\* elif action == 'proceed_to_attendance': to the marking screen if
\* session.get('session_date'), else back to Setup
Proceed(stored) ==
    IF Truthy(stored) THEN Redirect("/attendance") ELSE Redirect("/")

SetupPost(action, session_date_form, participant_name) ==
    LET Done(response) ==
            ret' = [op |-> "setup_page", method |-> "POST", action |-> action,
                    session_date_form |-> session_date_form,
                    response |-> response]
    IN
    /\ session' = StoredDate(session, session_date_form)
    /\ IF action = "add_participant"
       THEN /\ IF participant_name # <<>>
               THEN /\ participants' =
                          add_participant(participants, participant_name,
                                          NoneStr).table
                    /\ Cardinality(participants') <= MaxParticipants
               ELSE participants' = participants
            /\ Done(Redirect("/"))
       ELSE /\ participants' = participants
            /\ IF action = "proceed_to_attendance"
               THEN Done(Proceed(session'))
               ELSE \E rows \in get_all_participants(participants) :
                       Done(Render("setup.html", rows, session'))
    /\ UNCHANGED <<attendance_records, schema, pc, frame>>

\* the marking form rendered whether or not there is anyone to mark
MarkFormUnguarded(stored, rows) ==
    IF ~Truthy(stored) THEN Redirect("/")
    ELSE Render("mark_attendance.html", rows, stored)

\* GET /attendance: back to Setup without a stored date, and without
\* participants; else the form over the participants
MarkForm(stored, rows) ==
    IF ~Truthy(stored) THEN Redirect("/")
    ELSE IF rows = <<>> THEN Redirect("/")
    ELSE Render("mark_attendance.html", rows, stored)

MarkAttendanceGet ==
    /\ \E rows \in get_all_participants(participants) :
          ret' = [op |-> "mark_attendance_page", method |-> "GET",
                  response |-> MarkForm(session, rows)]
    /\ UNCHANGED <<participants, attendance_records, session, schema, pc, frame>>

\* the submit let through on the form's date alone
SubmitUnguarded(stored, session_date_form) == Truthy(session_date_form)

\* POST /attendance gets past both `if not session_date:` returns
SubmitAccepted(stored, session_date_form) ==
    Truthy(stored) /\ Truthy(session_date_form)

\* the loop and the redirect left on the date the session holds
SubmitDateStored(stored, session_date_form) == stored

\* session_date = request.form.get('session_date'): from here on the
\* handler's session_date is the form's
SubmitDate(stored, session_date_form) == session_date_form

\* POST /attendance with the hidden session_date field and the status
\* fields.  ret.form is the fields the loop went over: none when the
\* request was sent back before the loop.
MarkAttendancePost(session_date_form, form) ==
    /\ IF ~SubmitAccepted(session, session_date_form)
       THEN /\ attendance_records' = attendance_records
            /\ ret' = [op |-> "mark_attendance_page", method |-> "POST",
                       session_date_form |-> session_date_form,
                       form |-> <<>>, response |-> Redirect("/")]
       ELSE /\ \E table \in RecordAll({attendance_records},
                                      FormFields(session_date_form, form),
                                      SubmitDate(session, session_date_form)) :
                  /\ Cardinality(table) <= MaxRecords
                  /\ attendance_records' = table
            /\ ret' = [op |-> "mark_attendance_page", method |-> "POST",
                       session_date_form |-> session_date_form,
                       form |-> form,
                       response |->
                          RedirectView(SubmitDate(session, session_date_form))]
    /\ UNCHANGED <<participants, session, schema, pc, frame>>

\* the report of whichever date has records, not of the date asked for
ViewRowsAnyDate(ptable, atable, session_date_view) ==
    IF Truthy(session_date_view)
    THEN UNION {get_attendance_for_session(ptable, atable, d) : d \in Dates}
    ELSE {<<>>}

\* attendance_records = []; if session_date_to_view: fetch that date's report
ViewRows(ptable, atable, session_date_view) ==
    IF Truthy(session_date_view)
    THEN get_attendance_for_session(ptable, atable, session_date_view)
    ELSE {<<>>}

\* the date to view falling back on the date the session holds
ViewDateOrStored(stored, session_date_view) ==
    IF Truthy(session_date_view) THEN session_date_view ELSE stored

\* session_date_to_view = request.args.get('session_date_view')
ViewDate(stored, session_date_view) == session_date_view

\* GET /view?session_date_view=...
ViewAttendanceGet(session_date_view) ==
    /\ \E rows \in ViewRows(participants, attendance_records,
                            ViewDate(session, session_date_view)) :
          ret' = [op |-> "view_attendance_page",
                  session_date_view |-> session_date_view,
                  response |-> Render("view_attendance.html", rows,
                                      ViewDate(session, session_date_view))]
    /\ UNCHANGED <<participants, attendance_records, session, schema, pc, frame>>

\* the data-access functions, called directly
Next ==
    \/ \E a \in AddInputs : AddParticipant(a.name, a.email)
    \/ GetAllParticipants
    \/ \E id \in IdInputs, d \in Dates, s \in StatusInputs :
          RecordAttendance(id, d, s)
    \/ \E d \in Dates : GetAttendanceForSession(d)

Spec == Init /\ [][Next]_vars

\* the requests of one browser
FlowNext ==
    \/ InitializeDatabaseRoute
    \/ SetupGet
    \/ \E a \in SetupActions, d \in DateInputs, name \in NameInputs :
          SetupPost(a, d, name)
    \/ MarkAttendanceGet
    \/ \E d \in DateInputs, form \in Forms : MarkAttendancePost(d, form)
    \/ \E d \in DateInputs : ViewAttendanceGet(d)

FlowSpec == Init /\ [][FlowNext]_vars

\* ======================= several workers at once =======================
\* Each worker runs one add_participant or record_attendance call at a time;
\* a step is one statement against the store together with its commit.

\* rows that calls under way can still insert
PendingInserts(at) == Cardinality({q \in Procs : pc[q] \in at})

\* add_participant(name, email) is entered
CallAddParticipant(p, name, email) ==
    /\ pc[p] = "idle"
    /\ \/ UniqueNameViolated(participants, name)
       \/ Cardinality(participants) + PendingInserts({"insert"}) < MaxParticipants
    /\ pc' = [pc EXCEPT ![p] = "insert"]
    /\ frame' = [frame EXCEPT ![p] =
                    [IdleFrame EXCEPT !.name = name, !.email = email]]
    /\ UNCHANGED <<participants, attendance_records, session, schema, ret>>

\* cursor.execute(INSERT ...); conn.commit(); return, or the except branch
AddParticipantInsert(p) ==
    /\ pc[p] = "insert"
    /\ LET o == add_participant(participants, frame[p].name, frame[p].email)
       IN  /\ participants' = o.table
           /\ ret' = [op |-> "add_participant", name |-> frame[p].name,
                      email |-> frame[p].email, value |-> o.value]
    /\ pc' = [pc EXCEPT ![p] = "idle"]
    /\ frame' = [frame EXCEPT ![p] = IdleFrame]
    /\ UNCHANGED <<attendance_records, session, schema>>

\* record_attendance(participant_id, session_date, status) is entered
CallRecordAttendance(p, participant_id, session_date, status) ==
    /\ pc[p] = "idle"
    /\ \/ Matching(attendance_records, participant_id, session_date) # {}
       \/ Cardinality(attendance_records) + PendingInserts({"select", "write"})
             < MaxRecords
    /\ pc' = [pc EXCEPT ![p] = "select"]
    /\ frame' = [frame EXCEPT ![p] =
                    [IdleFrame EXCEPT !.participant_id = participant_id,
                                      !.session_date = session_date,
                                      !.status = status]]
    /\ UNCHANGED <<participants, attendance_records, session, schema, ret>>

\* cursor.execute(SELECT ...); record = cursor.fetchone()
RecordSelect(p) ==
    /\ pc[p] = "select"
    /\ \E record \in Fetchone(attendance_records, frame[p].participant_id,
                              frame[p].session_date) :
          frame' = [frame EXCEPT ![p].record = record]
    /\ pc' = [pc EXCEPT ![p] = "write"]
    /\ UNCHANGED <<participants, attendance_records, session, schema, ret>>

\* the UPDATE or the INSERT; conn.commit(); return, or the except branch
RecordWrite(p) ==
    /\ pc[p] = "write"
    /\ LET f == frame[p]
           o == RecordWriteResult(attendance_records, f.record,
                                  f.participant_id, f.session_date, f.status)
       IN  /\ attendance_records' = o.table
           /\ ret' = [op |-> "record_attendance",
                      participant_id |-> f.participant_id,
                      session_date |-> f.session_date, status |-> f.status,
                      record |-> f.record, value |-> o.value]
    /\ pc' = [pc EXCEPT ![p] = "idle"]
    /\ frame' = [frame EXCEPT ![p] = IdleFrame]
    /\ UNCHANGED <<participants, session, schema>>

\* add_participant calls of several workers
ConcAddNext ==
    \E p \in Procs :
        \/ \E a \in AddInputs : CallAddParticipant(p, a.name, a.email)
        \/ AddParticipantInsert(p)

ConcAddSpec == Init /\ [][ConcAddNext]_vars

\* record_attendance calls of several workers, all for one session date
\* (calls for different pairs touch different rows)
ConcRecordNext ==
    \E p \in Procs :
        \/ \E id \in IdInputs, d \in {"2024-01-03"}, s \in StatusInputs :
              CallRecordAttendance(p, id, d, s)
        \/ RecordSelect(p)
        \/ RecordWrite(p)

ConcRecordSpec == Init /\ [][ConcRecordNext]_vars

\* ====================== a database file not set up =====================
\* app.py imported by a server, not run as a script: init_db() has not run
\* and attendance.db has no tables until something calls it.

SchemaInit ==
    /\ participants = {}
    /\ attendance_records = {}
    /\ session = NoneStr
    /\ schema = {}
    /\ pc = [p \in Procs |-> "idle"]
    /\ frame = [p \in Procs |-> IdleFrame]
    /\ ret = [op |-> "none"]

\* init_db() called directly (app.py run as a script, database.py run)
InitDb ==
    /\ schema' = init_db(Db).tables
    /\ participants' = init_db(Db).participants
    /\ attendance_records' = init_db(Db).attendance_records
    /\ ret' = [op |-> "init_db"]
    /\ UNCHANGED <<session, pc, frame>>

\* add_participant on a file without the table: "no such table" is an
\* sqlite3.OperationalError, caught: None
AddParticipantNoTable(name, email) ==
    /\ "participants" \notin schema
    /\ ret' = [op |-> "add_participant", name |-> name, email |-> email,
               value |-> None]
    /\ UNCHANGED <<participants, attendance_records, session, schema, pc, frame>>

\* record_attendance on a file without the table: caught, False
RecordAttendanceNoTable(participant_id, session_date, status) ==
    /\ "attendance_records" \notin schema
    /\ ret' = [op |-> "record_attendance", participant_id |-> participant_id,
               session_date |-> session_date, status |-> status,
               record |-> 0, value |-> FALSE]
    /\ UNCHANGED <<participants, attendance_records, session, schema, pc, frame>>

SchemaNext ==
    \/ InitDb
    \/ InitializeDatabaseRoute
    \/ \E a \in AddInputs :
          "participants" \in schema /\ AddParticipant(a.name, a.email)
    \/ \E a \in AddInputs : AddParticipantNoTable(a.name, a.email)
    \/ \E id \in IdInputs, d \in Dates, s \in StatusInputs :
          "attendance_records" \in schema /\ RecordAttendance(id, d, s)
    \/ \E id \in IdInputs, d \in Dates, s \in StatusInputs :
          RecordAttendanceNoTable(id, d, s)

SchemaSpec == SchemaInit /\ [][SchemaNext]_vars

\* ========================= the store failing ==========================
\* Any call on the connection can raise sqlite3.Error: connecting, executing
\* a statement, committing.  (close() ends in sqlite3_close_v2, which reports
\* no failure.)  Every function body is one try block.

\* where a call can fail
FaultPoints == {"connect", "execute", "commit"}
ReadFaultPoints == {"connect", "execute"}

\* the function without its except clauses: the exception leaves it
Propagate(default) == [raised |-> TRUE, value |-> default]

\* except Exception as e: print(...); return None / [] / False
ExceptException(default) == [raised |-> FALSE, value |-> default]

\* The connection is dropped without commit(): what the failed call wrote,
\* if it got as far as writing, is rolled back.
Rollback(table, written) == table

\* what a call answers and leaves when it fails at `at`
Failed(op, at, default) ==
    [op |-> op, fault |-> at,
     raised |-> ExceptException(default).raised,
     value |-> ExceptException(default).value]

\* add_participant(name, email), failing at `at`
AddParticipantFault(name, email, at) ==
    /\ participants' =
          Rollback(participants,
                   IF at = "commit"
                   THEN add_participant(participants, name, email).table
                   ELSE participants)
    /\ ret' = Failed("add_participant", at, None)
    /\ UNCHANGED <<attendance_records, session, schema, pc, frame>>

\* get_all_participants(), failing at `at`
GetAllParticipantsFault(at) ==
    /\ ret' = Failed("get_all_participants", at, <<>>)
    /\ UNCHANGED <<participants, attendance_records, session, schema, pc, frame>>

\* record_attendance(participant_id, session_date, status), failing at `at`
\* (at "execute": in the SELECT or in the write after it)
RecordAttendanceFault(participant_id, session_date, status, at) ==
    /\ \E o \in record_attendance(attendance_records, participant_id,
                                  session_date, status) :
          attendance_records' =
             Rollback(attendance_records,
                      IF at = "commit" THEN o.table ELSE attendance_records)
    /\ ret' = Failed("record_attendance", at, FALSE)
    /\ UNCHANGED <<participants, session, schema, pc, frame>>

\* get_attendance_for_session(session_date), failing at `at`
GetAttendanceForSessionFault(session_date, at) ==
    /\ ret' = Failed("get_attendance_for_session", at, <<>>)
    /\ UNCHANGED <<participants, attendance_records, session, schema, pc, frame>>

\* the data-access functions, each call succeeding or failing
FaultNext ==
    \/ \E a \in AddInputs : AddParticipant(a.name, a.email)
    \/ \E id \in IdInputs, d \in Dates, s \in {"Present", "Absent"} :
          RecordAttendance(id, d, s)
    \/ \E a \in AddInputs, at \in FaultPoints :
          AddParticipantFault(a.name, a.email, at)
    \/ \E at \in ReadFaultPoints : GetAllParticipantsFault(at)
    \/ \E id \in IdInputs, at \in FaultPoints :
          RecordAttendanceFault(id, "2024-01-03", "Present", at)
    \/ \E d \in Dates, at \in ReadFaultPoints :
          GetAttendanceForSessionFault(d, at)

FaultSpec == Init /\ [][FaultNext]_vars

\* ============================== claims ==================================

\* C1: add(name) on a name no participant has inserts exactly one participant
\* (that name and email, a fresh id) and returns its id, which is positive;
\* on a name some participant has, it returns null and leaves the
\* participants as they were.  Both after any earlier calls.
C1_AddReturnsIdOrNull ==
    [][\A a \in AddInputs :
          AddParticipant(a.name, a.email) =>
             IF \E r \in participants : r.name = a.name
             THEN /\ ret'.value = None
                  /\ participants' = participants
             ELSE /\ ret'.value # None
                  /\ ret'.value[1] > 0
                  /\ \A r \in participants : r.id # ret'.value[1]
                  /\ participants' =
                        participants \cup {[id |-> ret'.value[1],
                                            name |-> a.name, email |-> a.email]}
                  /\ Cardinality(participants') = Cardinality(participants) + 1]_vars

\* C1 witness: a second participant's name was refused with null.
C1_Witness ==
    /\ ret.op = "add_participant"
    /\ ret.value = None
    /\ Cardinality(participants) = 2
    /\ \E r \in participants : r.name = ret.name /\ r.id = 2

\* C2: list_all() returns every participant exactly once, with its id and
\* name, in strictly ascending order of name: nothing on an empty store, and
\* N entries once N adds of distinct names have each inserted a row.
C2_ListAllSortedAndComplete ==
    ret.op = "get_all_participants" =>
        /\ Len(ret.value) = Cardinality(participants)
        /\ {ret.value[i] : i \in 1..Len(ret.value)} = participants
        /\ \A i, j \in 1..Len(ret.value) :
              i < j => LexLess(ret.value[i].name, ret.value[j].name)

\* C2 witness: two participants listed, the later-added one first.
C2_Witness ==
    /\ ret.op = "get_all_participants"
    /\ Len(ret.value) = 2
    /\ ret.value[1].id = 2
    /\ ret.value[2].id = 1

\* C3: with calls run one at a time, no (participant_id, session_date) pair
\* ever has two records, and a record(p, d, s) call with a valid status
\* returns true and leaves exactly one record for (p, d), with status s,
\* and every record of any other pair as it was.  So each pair recorded at
\* least once holds one record with the status of its last call.
C3_UpsertLastWriteWins ==
    /\ [](\A r1, r2 \in attendance_records :
             (r1.participant_id = r2.participant_id
                 /\ r1.session_date = r2.session_date) => r1 = r2)
    /\ [][(ret'.op = "record_attendance"
              /\ ret'.status \in {"Present", "Absent"}) =>
             LET Pair(r) == /\ r.participant_id = ret'.participant_id
                            /\ r.session_date = ret'.session_date
             IN  /\ ret'.value = TRUE
                 /\ Cardinality({r \in attendance_records' : Pair(r)}) = 1
                 /\ \A r \in attendance_records' :
                       Pair(r) => r.status = ret'.status
                 /\ {r \in attendance_records' : ~Pair(r)}
                       = {r \in attendance_records : ~Pair(r)}]_vars

\* C3 witness: a record made Absent by the update branch, beside another
\* pair's record.
C3_Witness ==
    /\ ret.op = "record_attendance"
    /\ ret.status = "Absent"
    /\ ret.record # 0
    /\ ret.value = TRUE
    /\ Cardinality(attendance_records) = 2
    /\ \E r \in attendance_records :
          /\ r.id = ret.record
          /\ r.participant_id = ret.participant_id
          /\ r.session_date = ret.session_date
          /\ r.status = "Absent"

\* C4 (as claimed): for_session(d) returns one entry for every record whose
\* session_date is d and no other, each with the name of the participant
\* its participant_id designates, in ascending order of participant name.
C4_ForSessionExact ==
    ret.op = "get_attendance_for_session" =>
        LET OfDate == {r \in attendance_records :
                          r.session_date = ret.session_date}
            N == Len(ret.value)
        IN  /\ N = Cardinality(OfDate)
            /\ \E f \in [1..N -> OfDate] :
                  /\ \A i, j \in 1..N : i # j => f[i] # f[j]
                  /\ \A i \in 1..N :
                        /\ ret.value[i].status = f[i].status
                        /\ ret.value[i].session_date = ret.session_date
                        /\ \E q \in participants :
                              /\ q.id = f[i].participant_id
                              /\ q.name = ret.value[i].participant_name
            /\ \A i, j \in 1..N :
                  i < j => LexLeq(ret.value[i].participant_name,
                                  ret.value[j].participant_name)

\* What holds of for_session(d) while every record's participant_id is the
\* id of a participant: the statement of C4.
C4_ForSessionExactIfNoOrphan ==
    (\A r \in attendance_records : \E q \in participants : q.id = r.participant_id)
        => C4_ForSessionExact

\* C5: under any interleaving of add calls no two participants have the same
\* name (nor the same id), and every identifier an add has returned is the id
\* of the one participant with the name it was called with: of concurrent
\* adds of one name, at most one returns an identifier.
C5_NamesUnique ==
    /\ \A r1, r2 \in participants :
          (r1.name = r2.name \/ r1.id = r2.id) => r1 = r2
    /\ (ret.op = "add_participant" /\ ret.value # None) =>
          \E r \in participants : r.id = ret.value[1] /\ r.name = ret.name

\* C5 witness: an add has returned an identifier for a name while another
\* worker's add of the same name is still before its INSERT.
C5_Witness ==
    /\ ret.op = "add_participant"
    /\ ret.value # None
    /\ \E p \in Procs : pc[p] = "insert" /\ frame[p].name = ret.name

\* C6: a record() call whose existence check found no record inserts a new
\* record and returns true when it comes to write, also when another call
\* has meanwhile committed a record for the same pair: both calls insert.
C6_CheckThenActInserts ==
    [][\A p \in Procs :
          (/\ pc[p] = "write"
           /\ pc'[p] = "idle"
           /\ frame[p].record = 0
           /\ frame[p].status \in {"Present", "Absent"}) =>
             /\ ret'.value = TRUE
             /\ Cardinality(attendance_records')
                   = Cardinality(attendance_records) + 1
             /\ \E r \in attendance_records' \ attendance_records :
                   /\ r.participant_id = frame[p].participant_id
                   /\ r.session_date = frame[p].session_date
                   /\ r.status = frame[p].status
                   /\ attendance_records' = attendance_records \cup {r}]_vars

\* C6 witness: two records for one (participant_id, session_date) pair, the
\* second just inserted by a call that returned true.
C6_Witness ==
    /\ ret.op = "record_attendance"
    /\ ret.record = 0
    /\ ret.value = TRUE
    /\ \E r1, r2 \in attendance_records :
          /\ r1.id # r2.id
          /\ r1.participant_id = ret.participant_id
          /\ r2.participant_id = ret.participant_id
          /\ r1.session_date = ret.session_date
          /\ r2.session_date = ret.session_date

\* C7: a GET of the mark-attendance screen renders the marking form exactly
\* when the session holds a date and some participant exists, and otherwise
\* redirects to Setup; the form rendered is given every participant once
\* (one status control each) and the stored date.
C7_MarkGetRendersIffDateAndParticipants ==
    (ret.op = "mark_attendance_page" /\ ret.method = "GET") =>
        IF session # NoneStr /\ session # "" /\ participants # {}
        THEN /\ ret.response.kind = "render"
             /\ ret.response.template = "mark_attendance.html"
             /\ ret.response.session_date = session
             /\ Len(ret.response.rows) = Cardinality(participants)
             /\ {ret.response.rows[i] : i \in 1..Len(ret.response.rows)}
                   = participants
        ELSE ret.response = [kind |-> "redirect", location |-> "/"]

\* C7 witness: a date is stored, nobody is registered, and the visit was
\* redirected to Setup.
C7_Witness ==
    /\ ret.op = "mark_attendance_page"
    /\ ret.method = "GET"
    /\ session \in Dates
    /\ participants = {}
    /\ ret.response = [kind |-> "redirect", location |-> "/"]

\* C8: a POST to the mark-attendance screen changes the attendance table
\* only if the session holds a date and the form carries a non-empty
\* session_date; if either is missing the response is a redirect to Setup
\* and the table is as before, whatever status fields came with it.
C8_SubmitEntryGuard ==
    [][(ret'.op = "mark_attendance_page" /\ ret'.method = "POST") =>
          LET held == session # NoneStr /\ session # ""
              carried == /\ ret'.session_date_form # NoneStr
                         /\ ret'.session_date_form # ""
          IN  /\ (attendance_records' # attendance_records) => (held /\ carried)
              /\ ~(held /\ carried) =>
                    /\ ret'.response = [kind |-> "redirect", location |-> "/"]
                    /\ attendance_records' = attendance_records]_vars

\* C8 witness: the session holds a date, the form carried an empty
\* session_date, and the submit was sent back to Setup.
C8_Witness ==
    /\ ret.op = "mark_attendance_page"
    /\ ret.method = "POST"
    /\ session \in Dates
    /\ ret.session_date_form = ""
    /\ participants # {}
    /\ ret.response = [kind |-> "redirect", location |-> "/"]

\* C9: a Setup request is answered with the redirect to MarkAttendance
\* exactly when it is a POST with the proceed action and the session holds a
\* date once the request's own date, if any, has been stored; every other
\* Setup request stays in Setup (a redirect to it, or its page).
C9_ProceedIffDateStored ==
    ret.op = "setup_page" =>
        IF /\ ret.method = "POST"
           /\ ret.action = "proceed_to_attendance"
           /\ session # NoneStr
           /\ session # ""
        THEN ret.response = [kind |-> "redirect", location |-> "/attendance"]
        ELSE \/ ret.response = [kind |-> "redirect", location |-> "/"]
             \/ /\ ret.response.kind = "render"
                /\ ret.response.template = "setup.html"

\* C9 witness: proceed was posted without any date, none was stored, and
\* the flow stayed in Setup.
C9_Witness ==
    /\ ret.op = "setup_page"
    /\ ret.method = "POST"
    /\ ret.action = "proceed_to_attendance"
    /\ ret.session_date_form = NoneStr
    /\ session = NoneStr
    /\ ret.response = [kind |-> "redirect", location |-> "/"]

\* C10: when the date d selected on Setup is stored and a submit for d
\* carries exactly one status field per participant, each with a valid
\* status, the response is the redirect to the report of d, and the report
\* of d is one row per participant, with the participant's name and the
\* status submitted for it, in strictly ascending order of name.
C10_SubmitThenReport ==
    LET d == ret.session_date_form
        KeyOf(q) == <<"status", DecimalText[q.id]>>
        OnePerParticipant ==
            /\ Len(ret.form) = Cardinality(participants)
            /\ \A q \in participants :
                  \E i \in 1..Len(ret.form) :
                     /\ ret.form[i].key = KeyOf(q)
                     /\ ret.form[i].value \in {"Present", "Absent"}
        Submitted(q) ==
            ret.form[CHOOSE i \in 1..Len(ret.form) : ret.form[i].key = KeyOf(q)].value
        Report == get_attendance_for_session(participants, attendance_records, d)
    IN  (/\ ret.op = "mark_attendance_page"
         /\ ret.method = "POST"
         /\ d \in Dates
         /\ session = d
         /\ participants # {}
         /\ OnePerParticipant) =>
            /\ ret.response = [kind |-> "redirect", location |-> "/view",
                               session_date_view |-> d]
            /\ Report # {}
            /\ \A rows \in Report :
                  /\ Len(rows) = Cardinality(participants)
                  /\ \A i, j \in 1..Len(rows) :
                        i < j => LexLess(rows[i].participant_name,
                                         rows[j].participant_name)
                  /\ \A i \in 1..Len(rows) :
                        \E q \in participants :
                           rows[i] = [participant_name |-> q.name,
                                      status |-> Submitted(q),
                                      session_date |-> d]

\* C10 witness: "A" and "a" are registered, d is stored, and A=Present,
\* a=Absent was submitted for d.
C10_Witness ==
    /\ ret.op = "mark_attendance_page"
    /\ ret.method = "POST"
    /\ session = "2024-01-03"
    /\ ret.session_date_form = "2024-01-03"
    /\ participants = {[id |-> 1, name |-> <<97>>, email |-> NoneStr],
                       [id |-> 2, name |-> <<65>>, email |-> NoneStr]}
    /\ ret.form = <<[key |-> <<"status", "1">>, value |-> "Absent"],
                    [key |-> <<"status", "2">>, value |-> "Present"]>>
    /\ get_attendance_for_session(participants, attendance_records, "2024-01-03")
          = {<<[participant_name |-> <<65>>, status |-> "Present",
                session_date |-> "2024-01-03"],
               [participant_name |-> <<97>>, status |-> "Absent",
                session_date |-> "2024-01-03"]>>}

\* C11: a report request whose session_date_view is present and non-empty
\* is answered with exactly the result of for_session for that date (the
\* empty sequence when the date has none); a request without the parameter
\* is answered with no records at all.  Either way it is the report page,
\* given the parameter as its date.
C11_ViewShowsForSession ==
    ret.op = "view_attendance_page" =>
        /\ ret.response.kind = "render"
        /\ ret.response.template = "view_attendance.html"
        /\ ret.response.session_date = ret.session_date_view
        /\ IF ret.session_date_view # NoneStr /\ ret.session_date_view # ""
           THEN ret.response.rows \in
                   get_attendance_for_session(participants, attendance_records,
                                              ret.session_date_view)
           ELSE ret.response.rows = <<>>

\* C11 witness: the report of a date shows its one record while the other
\* date has a record too.
C11_Witness ==
    /\ ret.op = "view_attendance_page"
    /\ ret.session_date_view = "2024-01-03"
    /\ Len(ret.response.rows) = 1
    /\ \E r \in attendance_records : r.session_date = "2024-01-04"
    /\ \E r \in attendance_records :
          /\ r.session_date = "2024-01-03"
          /\ \E q \in participants : q.id = r.participant_id

\* C11 second case reached: no parameter, records exist, none shown.
C11_WitnessNoParameter ==
    /\ ret.op = "view_attendance_page"
    /\ ret.session_date_view = NoneStr
    /\ attendance_records # {}
    /\ ret.response.rows = <<>>

\* C12: every attendance record's status is Present or Absent in every
\* reachable state, and a record(p, d, s) call with any other status returns
\* false and leaves the attendance table as it was, whether or not a record
\* for (p, d) existed (whose status is then kept).
C12_StatusDomain ==
    /\ [](\A r \in attendance_records : r.status \in {"Present", "Absent"})
    /\ [][(ret'.op = "record_attendance"
              /\ ret'.status \notin {"Present", "Absent"}) =>
             /\ ret'.value = FALSE
             /\ attendance_records' = attendance_records]_vars

\* C12 witness: a Late for a pair that has a record (the update path) was
\* refused, the record still there.
C12_Witness ==
    /\ ret.op = "record_attendance"
    /\ ret.status = "Late"
    /\ ret.record # 0
    /\ ret.value = FALSE
    /\ \E r \in attendance_records :
          /\ r.id = ret.record
          /\ r.participant_id = ret.participant_id
          /\ r.session_date = ret.session_date
          /\ r.status \in {"Present", "Absent"}

\* C12 insert path reached: a Late for a pair without a record was refused.
C12_WitnessInsertPath ==
    /\ ret.op = "record_attendance"
    /\ ret.status = "Late"
    /\ ret.record = 0
    /\ ret.value = FALSE
    /\ attendance_records # {}

\* C13: a repository call during which the store fails returns its failure
\* value (add: null, list_all: the empty sequence, record: false,
\* for_session: the empty sequence), raises nothing to its caller, and
\* leaves both tables as they were before the call.
C13_FailuresConverted ==
    [][("fault" \in DOMAIN ret') =>
          /\ ret'.raised = FALSE
          /\ ret'.value = CASE ret'.op = "add_participant" -> <<>>
                            [] ret'.op = "get_all_participants" -> <<>>
                            [] ret'.op = "record_attendance" -> FALSE
                            [] ret'.op = "get_attendance_for_session" -> <<>>
          /\ participants' = participants
          /\ attendance_records' = attendance_records]_vars

\* C13 witness: a record call failed at its commit, with records and
\* participants in the store.
C13_Witness ==
    /\ "fault" \in DOMAIN ret
    /\ ret.op = "record_attendance"
    /\ ret.fault = "commit"
    /\ ret.value = FALSE
    /\ attendance_records # {}
    /\ participants # {}

\* C14: initialize(), called directly or through POST /init_db_route,
\* leaves both tables existing; called when they exist it leaves every
\* participant and every attendance record as it was; called when they are
\* absent it creates them empty; and running it twice gives what running
\* it once gives.
C14_InitializeIdempotent ==
    /\ [](init_db(init_db(Db)) = init_db(Db))
    /\ [][(ret'.op \in {"init_db", "initialize_database_route"}) =>
             /\ schema' = {"participants", "attendance_records"}
             /\ ("participants" \in schema => participants' = participants)
             /\ ("attendance_records" \in schema =>
                    attendance_records' = attendance_records)
             /\ ("participants" \notin schema => participants' = {})
             /\ ("attendance_records" \notin schema =>
                    attendance_records' = {})]_vars

\* C14 witness: POST /init_db_route answered with participants and
\* attendance records in the store.
C14_Witness ==
    /\ ret.op = "initialize_database_route"
    /\ ret.response.status = 200
    /\ Cardinality(participants) = 2
    /\ attendance_records # {}

\* C15 (as claimed): in an accepted attendance submission, a status field
\* whose participant identifier, the text after "status_", is not an
\* integer causes no write, every status field with an integer identifier
\* is recorded, and the response is the redirect to the report: the
\* attendance table afterwards is what recording just the fields with an
\* integer identifier, in their order, gives.
C15_MalformedSkipped ==
    [][(/\ ret'.op = "mark_attendance_page"
        /\ ret'.method = "POST"
        /\ session # NoneStr /\ session # ""
        /\ ret'.session_date_form # NoneStr /\ ret'.session_date_form # "") =>
          LET d == ret'.session_date_form
              IntegerId(f) ==
                  /\ Len(f.key) = 2
                  /\ f.key[1] = "status"
                  /\ \E n \in 1..Len(DecimalText) : f.key[2] = DecimalText[n]
          IN  /\ ret'.response = [kind |-> "redirect", location |-> "/view",
                                  session_date_view |-> d]
              /\ attendance_records' \in
                    RecordAll({attendance_records},
                              SelectSeq(ret'.form, IntegerId), d)]_vars

\* C15, for submissions in which no identifier contains a further "_":
\* there the claim holds.
C15_MalformedSkippedIfNoUnderscore ==
    [][(/\ ret'.op = "mark_attendance_page"
        /\ ret'.method = "POST"
        /\ session # NoneStr /\ session # ""
        /\ ret'.session_date_form # NoneStr /\ ret'.session_date_form # ""
        /\ \A i \in 1..Len(ret'.form) : Len(ret'.form[i].key) = 2) =>
          LET d == ret'.session_date_form
              IntegerId(f) ==
                  /\ f.key[1] = "status"
                  /\ \E n \in 1..Len(DecimalText) : f.key[2] = DecimalText[n]
          IN  /\ ret'.response = [kind |-> "redirect", location |-> "/view",
                                  session_date_view |-> d]
              /\ attendance_records' \in
                    RecordAll({attendance_records},
                              SelectSeq(ret'.form, IntegerId), d)]_vars

\* C16: on an accepted attendance submission every record written (added,
\* or given a new status) has the session_date carried in the form, the
\* records of every other date are as before, and the response is the
\* redirect to the report with that same form date as its query parameter,
\* whatever date the session holds.
C16_KeyedByFormDate ==
    [][(/\ ret'.op = "mark_attendance_page"
        /\ ret'.method = "POST"
        /\ session # NoneStr /\ session # ""
        /\ ret'.session_date_form # NoneStr /\ ret'.session_date_form # "") =>
          LET d == ret'.session_date_form IN
          /\ \A r \in attendance_records' :
                r \notin attendance_records => r.session_date = d
          /\ {r \in attendance_records' : r.session_date # d}
                = {r \in attendance_records : r.session_date # d}
          /\ ret'.response = [kind |-> "redirect", location |-> "/view",
                              session_date_view |-> d]]_vars

\* C16 witness: the session holds one date, the form carried the other, and
\* the store's only record, just written, is under the form's date.
C16_Witness ==
    /\ ret.op = "mark_attendance_page"
    /\ ret.method = "POST"
    /\ session = "2024-01-03"
    /\ ret.session_date_form = "2024-01-04"
    /\ ret.response.location = "/view"
    /\ ret.response.session_date_view = "2024-01-04"
    /\ Len(ret.form) = 1
    /\ Cardinality(attendance_records) = 1
    /\ \A r \in attendance_records : r.session_date = "2024-01-04"

\* C17: what a report request displays is determined by its query
\* parameter and the two tables alone, so two requests with the same
\* parameter against the same store display the same records whatever the
\* session holds; and a report request leaves the session's date and both
\* tables as they were.
C17_ViewReadOnlySessionFree ==
    /\ [](ret.op = "view_attendance_page" =>
            LET shown ==
                   IF ret.session_date_view # NoneStr /\ ret.session_date_view # ""
                   THEN get_attendance_for_session(
                           participants, attendance_records,
                           ret.session_date_view)
                   ELSE {<<>>}
            IN  /\ Cardinality(shown) = 1
                /\ ret.response =
                      [kind |-> "render", template |-> "view_attendance.html",
                       rows |-> CHOOSE rows \in shown : TRUE,
                       session_date |-> ret.session_date_view])
    /\ [][ret'.op = "view_attendance_page" =>
             /\ session' = session
             /\ participants' = participants
             /\ attendance_records' = attendance_records]_vars

\* C17 witness: the session holds one date, the request named the other,
\* whose record is displayed.
C17_Witness ==
    /\ ret.op = "view_attendance_page"
    /\ session = "2024-01-03"
    /\ ret.session_date_view = "2024-01-04"
    /\ Len(ret.response.rows) = 1
    /\ ret.response.rows[1].session_date = "2024-01-04"

\* C17 reached as well: no parameter, a date in the session that has a
\* displayable record, nothing displayed.
C17_WitnessNoParameter ==
    /\ ret.op = "view_attendance_page"
    /\ ret.session_date_view = NoneStr
    /\ session \in Dates
    /\ get_attendance_for_session(participants, attendance_records, session)
          # {<<>>}
    /\ ret.response.rows = <<>>

\* C18: a Setup POST carrying a non-empty session_date leaves the session
\* holding that date, whatever its action (add-participant, proceed, or
\* none), and the date is stored before the action is handled: proceed in
\* the same request goes on to MarkAttendance.  A Setup POST with no
\* session_date, or an empty one, leaves the stored date as it was.
C18_SetupStoresDate ==
    [][(ret'.op = "setup_page" /\ ret'.method = "POST") =>
          IF ret'.session_date_form # NoneStr /\ ret'.session_date_form # ""
          THEN /\ session' = ret'.session_date_form
               /\ ret'.action = "proceed_to_attendance" =>
                     ret'.response = [kind |-> "redirect",
                                      location |-> "/attendance"]
          ELSE session' = session]_vars

\* C18 witness: an add-participant POST carried a date; the participant is
\* in and the session holds the date.
C18_Witness ==
    /\ ret.op = "setup_page"
    /\ ret.method = "POST"
    /\ ret.action = "add_participant"
    /\ ret.session_date_form = "2024-01-04"
    /\ session = "2024-01-04"
    /\ participants # {}

\* C18 reached as well: a POST with an empty date, the stored date kept.
C18_WitnessEmptyDate ==
    /\ ret.op = "setup_page"
    /\ ret.method = "POST"
    /\ ret.session_date_form = ""
    /\ session \in Dates

\* C19 (as claimed): in every reachable state every attendance record's
\* participant_id is the id of an existing participant, so a record() call
\* or a status_<n> field for an n that is no participant's id leaves no
\* record.
C19_ReferentialIntegrity ==
    \A r \in attendance_records :
       \E q \in participants : q.id = r.participant_id

\* C20: across any sequence of operations and requests a participant once
\* created stays, with its id, name and email, and an attendance record
\* once created stays, with its id, participant_id and session_date; of a
\* record only the status can change.
C20_LifecycleMonotone ==
    [][/\ \A q \in participants : q \in participants'
       /\ \A r \in attendance_records :
             \E r2 \in attendance_records' :
                /\ r2.id = r.id
                /\ r2.participant_id = r.participant_id
                /\ r2.session_date = r.session_date]_vars

\* C20 witness: with two participants and two records in the store, a
\* record was set to Present by the update branch and is there under its
\* old id.
C20_Witness ==
    /\ ret.op = "record_attendance"
    /\ ret.record # 0
    /\ ret.status = "Present"
    /\ ret.value = TRUE
    /\ Cardinality(participants) = 2
    /\ Cardinality(attendance_records) = 2
    /\ \E r \in attendance_records :
          /\ r.id = ret.record
          /\ r.participant_id = ret.participant_id
          /\ r.session_date = ret.session_date
          /\ r.status = "Present"

\* C21: the session's stored date is unset or a non-empty string; once set
\* it is never unset by any request, and it changes only to the non-empty
\* date a Setup POST carried.  Hence from the moment proceed has led to
\* MarkAttendance, the session holds a date ever after, so the entry guard
\* of MarkAttendance cannot fail for lack of one.
C21_StoredDateNeverCleared ==
    /\ [](session # "")
    /\ [][session # NoneStr =>
             /\ session' # NoneStr
             /\ session' # ""
             /\ session' # session =>
                   /\ ret'.op = "setup_page"
                   /\ ret'.method = "POST"
                   /\ ret'.session_date_form = session']_vars
    /\ []((/\ ret.op = "setup_page"
           /\ ret.response = [kind |-> "redirect", location |-> "/attendance"])
             => [](session # NoneStr /\ session # ""))

\* C21 witness: after a submit was accepted and its records stored, a
\* request to /init_db_route was answered and the session still holds its
\* date.
C21_Witness ==
    /\ ret.op = "initialize_database_route"
    /\ session = "2024-01-04"
    /\ attendance_records # {}

====
